---- MODULE Spec2Model ----
(***************************************************************************)
(* A model of scripts/testnet_manager.py: the PolyTorus local testnet      *)
(* manager.  The program is single threaded; every HTTP call is one        *)
(* synchronous request whose response is chosen by the environment.        *)
(*                                                                         *)
(* Representation of Python values                                         *)
(*   str (a typed line) : a sequence of tokens, each token either one      *)
(*                        whitespace character (" " or "\t") or a maximal  *)
(*                        run of non-whitespace characters (a word)        *)
(*   Optional[T]        : <<>> for None, <<x>> for the value x             *)
(*   dict               : a function whose DOMAIN is the set of keys       *)
(*   list               : a sequence                                       *)
(*   float amounts      : integers counting tenths (1.3 is 13)             *)
(***************************************************************************)
EXTENDS Integers, Sequences, FiniteSets, TLC

VARIABLES
    args,      \* the parsed command line (argparse namespace)
    pc,        \* position of the single thread of control
    session,   \* interactive loop: "NotStarted", "Running", "Terminated"
    ev,        \* how the last input() call ended: "none" (not called yet),
               \* "line", "eof", "interrupt"
    line,      \* the raw line last returned by input()
    command,   \* line.strip().lower(), the value the loop dispatches on
    out,       \* text printed since the latest input() call began (since
               \* the start of the process before the first)
    reqs,      \* HTTP requests issued over the same stretch
    response,  \* the response to the latest of them (NoResponse if none)
    status,    \* get_network_status: the dict being built
    ni,        \* get_network_status: index of the next registry entry
    wallets,   \* send_test_transactions: the list returned by list_wallets
    i,         \* send_test_transactions: loop index
    sent,      \* send_test_transactions: number of successful sends
    clock,     \* time spent in time.sleep since the process started
    exitcode,  \* process exit code once pc = "exit"
    nlines     \* number of input() calls that returned a line

vars == <<args, pc, session, ev, line, command, out, reqs, response, status,
          ni, wallets, i, sent, clock, exitcode, nlines>>

---------------------------------------------------------------------------
(* Bounds of the model *)

MaxCount == 5      \* largest --test-transactions COUNT
MaxWallets == 3    \* longest wallet list the gateway returns
MaxArgs == 4       \* most arguments typed after balance / send
MaxTxs == 15       \* longest list of recent transactions
MaxLines == 2      \* lines the input stream holds before end of file

(* Program constants *)

ProbeTimeout == 5  \* requests.get(..., timeout=5)
ShowLast == 10     \* txs[-10:]
SleepSecs == 2     \* time.sleep(2)
DefaultGasPrice == 1  \* gas_price: int = 1

None == <<>>
Some(x) == <<x>>

Min(a, b) == IF a < b THEN a ELSE b

---------------------------------------------------------------------------
(* PolyTorusTestnet.__init__ *)

api_base == "http://localhost:9020"

NodeNames == <<"bootstrap", "miner-1", "miner-2", "validator", "api-gateway">>

nodes ==
    [n \in {NodeNames[k] : k \in 1..Len(NodeNames)} |->
        CASE n = "bootstrap" -> "http://localhost:9000"
          [] n = "miner-1" -> "http://localhost:9001"
          [] n = "miner-2" -> "http://localhost:9002"
          [] n = "validator" -> "http://localhost:9003"
          [] n = "api-gateway" -> "http://localhost:9020"]

---------------------------------------------------------------------------
(* Printed text and HTTP traffic *)

\* One print() call: a tag naming the format string and the values it
\* interpolates (a string, a number, a token sequence).
Msg(t, s, n, toks) == [t |-> t, s |-> s, n |-> n, toks |-> toks]
M(t) == Msg(t, "", 0, <<>>)
MS(t, s) == Msg(t, s, 0, <<>>)
MN(t, n) == Msg(t, "", n, <<>>)
MT(t, toks) == Msg(t, "", 0, toks)

\* One requests.get / requests.post call.  The URL f"{base}{path}{arg}" is
\* kept as its parts; payload is the json= argument, timeout the timeout=.
Req(method, base, path, arg, payload, timeout) ==
    [method |-> method, base |-> base, path |-> path, arg |-> arg,
     payload |-> payload, timeout |-> timeout]

\* A response: exc names the exception requests raised ("" when a response
\* arrived), code is the status code, json tells whether response.json()
\* parses the body, body is the parsed value.
Resp(exc, code, json, body) ==
    [exc |-> exc, code |-> code, json |-> json, body |-> body]

\* The gateway is unreachable; it answers 500; it answers 204 (a success
\* status other than 200); it answers 200 with a body that is not JSON.
Failures ==
    { Resp("ConnectionError", 0, FALSE, <<>>),
      Resp("", 500, FALSE, <<>>),
      Resp("", 204, FALSE, <<>>),
      Resp("", 200, FALSE, <<>>) }

Ok200(body) == Resp("", 200, TRUE, body)

NoResponse == Resp("", 0, FALSE, <<>>)

---------------------------------------------------------------------------
(* Status Prober *)

\* check_node_status: True exactly on a response whose status code is 200;
\* the bare `except:` turns everything raised inside the try block into
\* False, a KeyboardInterrupt delivered during the request included.
check_node_status(resp) ==
    IF resp.exc # "" THEN FALSE ELSE resp.code = 200

ProbeReq(url) == Req("GET", url, "/status", "", None, Some(ProbeTimeout))

\* What a probe can meet: no connection, no answer within the timeout, an
\* interrupt signal while the request is waiting, a 200, another success
\* status, an error status.
ProbeResps ==
    { Resp("ConnectionError", 0, FALSE, <<>>),
      Resp("Timeout", 0, FALSE, <<>>),
      Resp("KeyboardInterrupt", 0, FALSE, <<>>),
      Resp("", 200, FALSE, <<>>),
      Resp("", 204, FALSE, <<>>),
      Resp("", 503, FALSE, <<>>) }

\* The value get_network_status stores under a node's name.
StatusEntry(url, online) == [online |-> online, url |-> url]

StatusPut_SkipOffline(d, name, entry) ==
    IF entry.online
    THEN [n \in DOMAIN d \cup {name} |-> IF n = name THEN entry ELSE d[n]]
    ELSE d

\* status[name] = {...}
StatusPut(d, name, entry) ==
    [n \in DOMAIN d \cup {name} |-> IF n = name THEN entry ELSE d[n]]

---------------------------------------------------------------------------
(* Gateway Client.  Each operation is given the response to its single     *)
(* request and yields [ret |-> the value returned, out |-> what it prints]. *)

\* The exception raised inside the try block, "" when none is: requests
\* raises on a connection failure, response.json() on an unparsable body
\* (json() is only called on a 200).
Raised(resp) ==
    IF resp.exc # "" THEN resp.exc
    ELSE IF resp.code = 200 /\ ~resp.json THEN "JSONDecodeError"
    ELSE ""

Get(key, dict, default) == IF key \in DOMAIN dict THEN dict[key] ELSE default

CreateWalletReq == Req("POST", api_base, "/wallet/create", "", None, None)

create_wallet_ErrorBody(resp) ==
    IF Raised(resp) # ""
    THEN [ret |-> None, out |-> <<MS("Error creating wallet: {e}", Raised(resp))>>]
    ELSE IF resp.code = 200
    THEN [ret |-> Some(resp.body), out |-> <<>>]
    ELSE [ret |-> Some([error |-> resp.code]),
          out |-> <<MN("Failed to create wallet: HTTP {status_code}", resp.code)>>]

create_wallet(resp) ==
    IF Raised(resp) # ""
    THEN [ret |-> None, out |-> <<MS("Error creating wallet: {e}", Raised(resp))>>]
    ELSE IF resp.code = 200
    THEN [ret |-> Some(resp.body), out |-> <<>>]
    ELSE [ret |-> None,
          out |-> <<MN("Failed to create wallet: HTTP {status_code}", resp.code)>>]

ListWalletsReq == Req("GET", api_base, "/wallet/list", "", None, None)

list_wallets(resp) ==
    IF Raised(resp) # ""
    THEN [ret |-> <<>>, out |-> <<MS("Error listing wallets: {e}", Raised(resp))>>]
    ELSE IF resp.code = 200
    THEN [ret |-> resp.body, out |-> <<>>]
    ELSE [ret |-> <<>>, out |-> <<>>]

BalanceReq(address) == Req("GET", api_base, "/balance/", address, None, None)

get_balance_ZeroOnFailure(resp) ==
    IF Raised(resp) # ""
    THEN [ret |-> Some(0), out |-> <<MS("Error getting balance: {e}", Raised(resp))>>]
    ELSE IF resp.code = 200
    THEN [ret |-> Some(Get("balance", resp.body, 0)), out |-> <<>>]
    ELSE [ret |-> Some(0), out |-> <<>>]

get_balance(resp) ==
    IF Raised(resp) # ""
    THEN [ret |-> None, out |-> <<MS("Error getting balance: {e}", Raised(resp))>>]
    ELSE IF resp.code = 200
    THEN [ret |-> Some(Get("balance", resp.body, 0)), out |-> <<>>]
    ELSE [ret |-> None, out |-> <<>>]

SendReq(from_addr, to_addr, amount, gas_price) ==
    Req("POST", api_base, "/transaction/send", "",
        Some([from |-> from_addr, to |-> to_addr, amount |-> amount,
              gasPrice |-> gas_price]), None)

send_transaction(resp) ==
    IF Raised(resp) # ""
    THEN [ret |-> None, out |-> <<MS("Error sending transaction: {e}", Raised(resp))>>]
    ELSE IF resp.code = 200
    THEN [ret |-> IF "hash" \in DOMAIN resp.body THEN Some(resp.body["hash"]) ELSE None,
          out |-> <<>>]
    ELSE [ret |-> None,
          out |-> <<MN("Failed to send transaction: HTTP {status_code}", resp.code)>>]

RecentReq == Req("GET", api_base, "/transaction/recent", "", None, None)

get_recent_transactions(resp) ==
    IF Raised(resp) # ""
    THEN [ret |-> <<>>, out |-> <<MS("Error getting transactions: {e}", Raised(resp))>>]
    ELSE IF resp.code = 200
    THEN [ret |-> resp.body, out |-> <<>>]
    ELSE [ret |-> <<>>, out |-> <<>>]

StatsReq == Req("GET", api_base, "/network/status", "", None, None)

get_blockchain_stats(resp) ==
    IF Raised(resp) # ""
    THEN [ret |-> None, out |-> <<MS("Error getting blockchain stats: {e}", Raised(resp))>>]
    ELSE IF resp.code = 200
    THEN [ret |-> Some(resp.body), out |-> <<>>]
    ELSE [ret |-> None, out |-> <<>>]

\* Python truthiness of an Optional[dict], an Optional[str] and a list
TruthyDict(opt) == opt # None /\ DOMAIN opt[1] # {}
TruthyStr(opt) == opt # None /\ opt[1] # ""
TruthyList(l) == Len(l) > 0

---------------------------------------------------------------------------
(* Strings typed at the prompt *)

IsSpace(t) == t \in {" ", "\t"}

\* str.lower() on one token
CaseTable ==
    { <<"QUIT", "quit">>, <<"Exit", "exit">>, <<"Help", "help">>,
      <<"Status", "status">>, <<"Balance", "balance">>, <<"Send", "send">>,
      <<"Foo", "foo">>, <<"Addr1", "addr1">>, <<"W0", "w0">> }

LowerToken(t) ==
    IF \E p \in CaseTable : p[1] = t
    THEN (CHOOSE p \in CaseTable : p[1] = t)[2]
    ELSE t

\* str.lower()
Lower(l) == [k \in 1..Len(l) |-> LowerToken(l[k])]

\* str.strip(): drop the leading and the trailing whitespace
Strip(l) ==
    LET keep == {k \in 1..Len(l) : ~IsSpace(l[k])}
    IN  IF keep = {} THEN <<>>
        ELSE SubSeq(l, CHOOSE k \in keep : \A m \in keep : k <= m,
                       CHOOSE k \in keep : \A m \in keep : k >= m)

\* str.split(): the words between runs of whitespace
Split(l) == SelectSeq(l, LAMBDA t : ~IsSpace(t))

\* str.startswith(prefix)
StartsWith(l, prefix) ==
    Len(l) >= Len(prefix) /\ SubSeq(l, 1, Len(prefix)) = prefix

\* float(word): <<x>> with x in tenths, or <<>> when float raises ValueError
FloatTable ==
    { <<"1.5", 15>>, <<"2", 20>>, <<"0", 0>>, <<"-5", -50>> }

float(w) ==
    IF \E p \in FloatTable : p[1] = w
    THEN Some((CHOOSE p \in FloatTable : p[1] = w)[2])
    ELSE None

\* str.capitalize() on a registry name
capitalize(n) ==
    CASE n = "bootstrap" -> "Bootstrap"
      [] n = "miner-1" -> "Miner-1"
      [] n = "miner-2" -> "Miner-2"
      [] n = "validator" -> "Validator"
      [] n = "api-gateway" -> "Api-gateway"

---------------------------------------------------------------------------
(* Inputs: what the operator types and what the gateway answers *)

RECURSIVE Join(_, _)
Join(ws, sep) ==
    IF Len(ws) <= 1 THEN ws ELSE <<ws[1], sep>> \o Join(Tail(ws), sep)

Pad(l, p) == IF p = 0 THEN l ELSE <<" ">> \o l \o <<" ">>

SimpleWords ==
    { "quit", "exit", "help", "status", "wallets", "create-wallet",
      "transactions", "stats", "foo", "QUIT", "Exit", "Help", "Status", "Foo" }

AmountWords == { "1.5", "2", "0", "-5", "notanumber" }

BalanceArgs(a1, n) == [k \in 1..n |-> IF k = 1 THEN a1 ELSE "addr2"]

SendArgs(amt, n) ==
    [k \in 1..n |-> IF k = 1 THEN "a" ELSE IF k = 2 THEN "b"
                    ELSE IF k = 3 THEN amt ELSE "extra"]

Lines ==
    { Pad(<<w>>, p) : w \in SimpleWords, p \in 0..1 }
    \cup { <<>>, <<" ">>, <<"foo", " ", "bar">> }
    \cup { Join(<<"balance">> \o BalanceArgs(a1, n), sep) :
             a1 \in {"addr1", "Addr1"}, n \in 0..MaxArgs, sep \in {" ", "\t"} }
    \cup { <<"balance", " ">>, <<"Balance", " ", "addr1">> }
    \cup { Join(<<"send">> \o SendArgs(amt, n), " ") :
             amt \in AmountWords, n \in 0..MaxArgs }
    \cup { <<"send", " ">>, <<"Send", " ", "a", " ", "b", " ", "2">> }

WalletNames == <<"w0", "w1", "w2", "w3", "w4", "w5">>

\* Wallet lists: n well-formed wallets, or the same with the k-th wallet
\* lacking its `type` or its `address`.
Wallet(k) == [address |-> WalletNames[k], type |-> "hd"]

GoodWallets(n) == [k \in 1..n |-> Wallet(k)]

WalletLists ==
    { GoodWallets(n) : n \in 0..MaxWallets }
    \cup UNION { { [GoodWallets(n) EXCEPT ![k] = [address |-> WalletNames[k]]] :
                      k \in 1..n } : n \in 1..MaxWallets }
    \cup UNION { { [GoodWallets(n) EXCEPT ![k] = [type |-> "hd"]] :
                      k \in 1..n } : n \in 1..MaxWallets }

\* Transaction k of the gateway's list; its hash is the opaque value k.
Tx(k) == [hash |-> k, from |-> "a", to |-> "b", amount |-> 10 + k]

GoodTxs(n) == [k \in 1..n |-> Tx(k)]

TxLists ==
    { GoodTxs(n) : n \in 0..MaxTxs }
    \cup { [GoodTxs(n) EXCEPT ![n] = [hash |-> n, from |-> "a", to |-> "b"]] :
             n \in 1..MaxTxs }

StatsFields == {"blockHeight", "totalTransactions", "difficulty"}

StatsBodies == { [f \in S |-> 7] : S \in SUBSET StatsFields } \cup { [peers |-> 7] }

CreateWalletResps ==
    Failures \cup { Ok200([address |-> "w9"]), Ok200([type |-> "hd"]), Ok200(<<>>) }
ListWalletsResps == Failures \cup { Ok200(ws) : ws \in WalletLists }
BalanceResps ==
    Failures \cup { Ok200(<<>>), Ok200([balance |-> 0]), Ok200([balance |-> 25]),
                    Ok200([address |-> "addr1"]) }
SendResps ==
    { Resp("ConnectionError", 0, FALSE, <<>>), Resp("", 500, FALSE, <<>>),
      Resp("", 200, FALSE, <<>>),
      Ok200([hash |-> "h1"]), Ok200([hash |-> ""]), Ok200(<<>>) }
RecentResps == Failures \cup { Ok200(txs) : txs \in TxLists }
StatsResps == Failures \cup { Ok200(b) : b \in StatsBodies }

Counts == -1..MaxCount

AllArgs ==
    [ status : BOOLEAN, interactive : BOOLEAN,
      test_transactions : {None} \cup {Some(c) : c \in Counts},
      create_wallet : BOOLEAN, list_wallets : BOOLEAN,
      balance : {None, Some(""), Some("addr1")} ]

\* Flags of lower priority than --interactive that are supplied
LowerFlags(a) ==
    (IF a.test_transactions # None THEN {"test_transactions"} ELSE {})
    \cup (IF a.create_wallet THEN {"create_wallet"} ELSE {})
    \cup (IF a.list_wallets THEN {"list_wallets"} ELSE {})
    \cup (IF a.balance # None THEN {"balance"} ELSE {})

\* The command lines explored.  Without --interactive: every combination
\* of the other flags with COUNT absent, 0 or 2, and every COUNT with
\* --test-transactions given alone.  With --interactive: the same, with
\* none, one or all of the lower-priority flags beside it.
ArgSpace ==
    { a \in AllArgs :
        /\ \/ a.test_transactions \in {None, Some(0), Some(2)}
           \/ /\ ~a.status /\ ~a.interactive /\ ~a.create_wallet /\ ~a.list_wallets
              /\ a.balance = None
        /\ a.interactive => Cardinality(LowerFlags(a)) \in {0, 1, 4} }

---------------------------------------------------------------------------
(* State after argparse and PolyTorusTestnet() *)

Init ==
    /\ args \in ArgSpace
    /\ pc = "main"
    /\ session = "NotStarted"
    /\ ev = "none"
    /\ line = <<>>
    /\ command = <<>>
    /\ out = <<>>
    /\ reqs = <<>>
    /\ response = NoResponse
    /\ status = <<>>
    /\ ni = 1
    /\ wallets = <<>>
    /\ i = 0
    /\ sent = 0
    /\ clock = 0
    /\ exitcode = 0
    /\ nlines = 0

\* Where control goes when a command ends: back to input() inside the
\* interactive loop, to the end of main() otherwise.
Return == IF session = "Running" THEN "read" ELSE "exit"

\* An exception that leaves a one-shot action: nothing in main() catches
\* it, the interpreter prints the traceback and exits with code 1.
Crash(e) == [msg |-> MS("Traceback", e), exitcode |-> 1]

Catch_Break(e) ==
    [msg |-> MS("Error: {e}", e), session |-> "Terminated", pc |-> "exit"]

\* interactive_mode: except Exception as e: print(f"Error: {e}"), and the
\* while loop goes on to the next input()
Catch(e) == [msg |-> MS("Error: {e}", e), session |-> "Running", pc |-> "read"]

---------------------------------------------------------------------------
(* main(): the chain of conditionals over the parsed flags *)

TruthyCount(opt) == opt # None /\ opt[1] # 0

Selected(a) ==
    IF a.status THEN "status"
    ELSE IF a.interactive THEN "interactive"
    ELSE IF TruthyCount(a.test_transactions) THEN "test_transactions"
    ELSE IF a.create_wallet THEN "create_wallet"
    ELSE IF a.list_wallets THEN "list_wallets"
    ELSE IF TruthyStr(a.balance) THEN "balance"
    ELSE "usage"

\* print_status up to the call of get_network_status
EnterPrintStatus ==
    /\ out' = out \o <<M("PolyTorus Local Testnet Status"), M("========")>>
    /\ status' = <<>>
    /\ ni' = 1
    /\ pc' = "probe"

MainStatus ==
    /\ pc = "main" /\ Selected(args) = "status"
    /\ EnterPrintStatus
    /\ UNCHANGED <<args, response, session, ev, line, command, reqs, wallets, i, sent,
                   clock, exitcode, nlines>>

Probe_StopAtOffline ==
    /\ pc = "probe" /\ ni <= Len(NodeNames)
    /\ \E resp \in ProbeResps :
         LET name == NodeNames[ni]
             url == nodes[name]
         IN  /\ response' = resp
             /\ reqs' = Append(reqs, ProbeReq(url))
             /\ status' = StatusPut(status, name,
                                    StatusEntry(url, check_node_status(resp)))
             /\ ni' = IF check_node_status(resp) THEN ni + 1 ELSE Len(NodeNames) + 1
    /\ UNCHANGED <<args, pc, session, ev, line, command, out, wallets, i, sent,
                   clock, exitcode, nlines>>

\* get_network_status: one iteration of the loop over self.nodes.items()
Probe ==
    /\ pc = "probe" /\ ni <= Len(NodeNames)
    /\ \E resp \in ProbeResps :
         LET name == NodeNames[ni]
             url == nodes[name]
         IN  /\ response' = resp
             /\ reqs' = Append(reqs, ProbeReq(url))
             /\ status' = StatusPut(status, name,
                                    StatusEntry(url, check_node_status(resp)))
    /\ ni' = ni + 1
    /\ UNCHANGED <<args, pc, session, ev, line, command, out, wallets, i, sent,
                   clock, exitcode, nlines>>

\* The keys of a dict in insertion order (registry order here)
Keys(d) == SelectSeq(NodeNames, LAMBDA n : n \in DOMAIN d)

NodeLine(name, info) ==
    Msg(IF info.online THEN "online {name}: {url}" ELSE "offline {name}: {url}",
        capitalize(name), 0, <<info.url>>)

\* print_status: get_network_status has returned; one line per entry
PrintNodes ==
    /\ pc = "probe" /\ ni > Len(NodeNames)
    /\ out' = out \o [k \in 1..Len(Keys(status)) |->
                        NodeLine(Keys(status)[k], status[Keys(status)[k]])]
                  \o <<M("Blockchain Statistics"), M("--------")>>
    /\ pc' = "ps_stats"
    /\ UNCHANGED <<args, response, session, ev, line, command, reqs, status, ni, wallets,
                   i, sent, clock, exitcode, nlines>>

StatLine(label, key, stats) ==
    IF key \in DOMAIN stats THEN MN(label, stats[key]) ELSE MS(label, "N/A")

StatLines(stats) ==
    << StatLine("Block Height: {}", "blockHeight", stats),
       StatLine("Total Transactions: {}", "totalTransactions", stats),
       StatLine("Difficulty: {}", "difficulty", stats) >>

\* print_status: the statistics part
PrintStatusStats ==
    /\ pc = "ps_stats"
    /\ \E resp \in StatsResps :
         LET r == get_blockchain_stats(resp)
         IN  /\ response' = resp
             /\ reqs' = Append(reqs, StatsReq)
             /\ out' = out \o r.out \o
                         (IF TruthyDict(r.ret) THEN StatLines(r.ret[1])
                          ELSE <<M("Unable to fetch blockchain statistics")>>)
    /\ status' = <<>>
    /\ ni' = 1
    /\ pc' = Return
    /\ exitcode' = 0
    /\ UNCHANGED <<args, session, ev, line, command, wallets, i, sent, clock,
                   nlines>>

\* The numbered wallet list both front ends print; a wallet without an
\* `address` raises KeyError after the lines before it were printed.
WalletLine(k, w) ==
    Msg("{i}. {address} ({type})", w["address"], k, <<Get("type", w, "unknown")>>)

FirstBad_TypeRequired(ws) ==
    IF \E k \in 1..Len(ws) : ~({"address", "type"} \subseteq DOMAIN ws[k])
    THEN CHOOSE k \in 1..Len(ws) :
           /\ ~({"address", "type"} \subseteq DOMAIN ws[k])
           /\ \A m \in 1..(k - 1) : {"address", "type"} \subseteq DOMAIN ws[m]
    ELSE Len(ws) + 1

FirstBad(ws) ==
    IF \E k \in 1..Len(ws) : "address" \notin DOMAIN ws[k]
    THEN CHOOSE k \in 1..Len(ws) :
           /\ "address" \notin DOMAIN ws[k]
           /\ \A m \in 1..(k - 1) : "address" \in DOMAIN ws[m]
    ELSE Len(ws) + 1

WalletLines(ws) == [k \in 1..(FirstBad(ws) - 1) |-> WalletLine(k, ws[k])]

WalletsRaise(ws) == FirstBad(ws) <= Len(ws)

MainCreateWallet ==
    /\ pc = "main" /\ Selected(args) = "create_wallet"
    /\ \E resp \in CreateWalletResps :
         LET r == create_wallet(resp)
             raises == TruthyDict(r.ret) /\ "address" \notin DOMAIN r.ret[1]
         IN  /\ response' = resp
             /\ reqs' = Append(reqs, CreateWalletReq)
             /\ out' = out \o r.out \o
                   (IF ~TruthyDict(r.ret) THEN <<M("Failed to create wallet")>>
                    ELSE IF raises THEN <<Crash("KeyError: 'address'").msg>>
                    ELSE <<MS("New wallet created: {address}", r.ret[1]["address"])>>)
             /\ exitcode' = IF raises THEN Crash("KeyError: 'address'").exitcode ELSE 0
    /\ pc' = "exit"
    /\ UNCHANGED <<args, session, ev, line, command, status, ni, wallets, i,
                   sent, clock, nlines>>

MainListWallets ==
    /\ pc = "main" /\ Selected(args) = "list_wallets"
    /\ \E resp \in ListWalletsResps :
         LET r == list_wallets(resp)
         IN  /\ response' = resp
             /\ reqs' = Append(reqs, ListWalletsReq)
             /\ out' = out \o r.out \o
                   (IF ~TruthyList(r.ret) THEN <<M("No wallets found")>>
                    ELSE <<M("Available Wallets:")>> \o WalletLines(r.ret) \o
                         (IF WalletsRaise(r.ret)
                          THEN <<Crash("KeyError: 'address'").msg>> ELSE <<>>))
             /\ exitcode' = IF TruthyList(r.ret) /\ WalletsRaise(r.ret)
                            THEN Crash("KeyError: 'address'").exitcode ELSE 0
    /\ pc' = "exit"
    /\ UNCHANGED <<args, session, ev, line, command, status, ni, wallets, i,
                   sent, clock, nlines>>

\* main(): if balance is not None ... else ...
MainShowBalance(balance) ==
    IF balance # None THEN MN("Balance: {balance} POLY", balance[1])
    ELSE M("Failed to get balance")

MainBalance ==
    /\ pc = "main" /\ Selected(args) = "balance"
    /\ \E resp \in BalanceResps :
         LET r == get_balance(resp)
         IN  /\ response' = resp
             /\ reqs' = Append(reqs, BalanceReq(args.balance[1]))
             /\ out' = out \o r.out \o <<MainShowBalance(r.ret)>>
    /\ pc' = "exit"
    /\ exitcode' = 0
    /\ UNCHANGED <<args, session, ev, line, command, status, ni, wallets, i,
                   sent, clock, nlines>>

MainUsage ==
    /\ pc = "main" /\ Selected(args) = "usage"
    /\ out' = out \o <<M("PolyTorus Local Testnet Manager"),
                       M("Use --help for available options"),
                       M("Quick start: python3 testnet_manager.py --interactive")>>
    /\ pc' = "exit"
    /\ exitcode' = 0
    /\ UNCHANGED <<args, response, session, ev, line, command, reqs, status, ni, wallets,
                   i, sent, clock, nlines>>

---------------------------------------------------------------------------
(* send_test_transactions *)

BatchFrom(k, n) == (k % n) + 1

BatchTo(k, n) == ((k + 1) % n) + 1

BatchAmount_Flat(k) == 10

\* amount = 1.0 + (i * 0.1), in tenths (exact in binary floating point for
\* every i the model reaches: the first i whose sum is not the decimal
\* value is 7)
BatchAmount(k) == 10 + k

TooFewWallets_Empty(ws) == Len(ws) < 1

\* len(wallets) < 2
TooFewWallets(ws) == Len(ws) < 2

\* send_test_transactions up to the loop: the banner, list_wallets, the
\* check on the number of wallets
MainTestTransactions ==
    /\ pc = "main" /\ Selected(args) = "test_transactions"
    /\ \E resp \in ListWalletsResps :
         LET r == list_wallets(resp)
         IN  /\ response' = resp
             /\ reqs' = Append(reqs, ListWalletsReq)
             /\ wallets' = r.ret
             /\ IF TooFewWallets(r.ret)
                THEN /\ out' = out \o <<MN("Sending {count} test transactions...",
                                           args.test_transactions[1])>> \o r.out
                                   \o <<M("Need at least 2 wallets for test transactions")>>
                     /\ pc' = "exit"
                ELSE /\ out' = out \o <<MN("Sending {count} test transactions...",
                                           args.test_transactions[1])>> \o r.out
                     /\ pc' = "stt_loop"
    /\ i' = 0
    /\ sent' = 0
    /\ exitcode' = 0
    /\ UNCHANGED <<args, session, ev, line, command, status, ni, clock, nlines>>

SendTestTransaction_StopOnFailure ==
    /\ pc = "stt_loop" /\ i < args.test_transactions[1]
    /\ LET n == Len(wallets)
           from_wallet == wallets[BatchFrom(i, n)]
           to_wallet == wallets[BatchTo(i, n)]
       IN  IF "address" \notin DOMAIN from_wallet \/ "address" \notin DOMAIN to_wallet
           THEN /\ out' = Append(out, Crash("KeyError: 'address'").msg)
                /\ pc' = "exit"
                /\ exitcode' = Crash("KeyError: 'address'").exitcode
                /\ UNCHANGED <<reqs, response, i, sent, clock>>
           ELSE /\ \E resp \in SendResps :
                     LET r == send_transaction(resp)
                     IN  /\ response' = resp
                         /\ reqs' = Append(reqs,
                                       SendReq(from_wallet["address"], to_wallet["address"],
                                               BatchAmount(i), DefaultGasPrice))
                         /\ out' = out \o r.out \o
                               <<IF TruthyStr(r.ret)
                                 THEN Msg("Transaction {i+1}/{count}: {tx_hash[:16]}...",
                                          r.ret[1], i + 1, <<>>)
                                 ELSE MN("Failed to send transaction {i+1}", i + 1)>>
                         /\ sent' = IF TruthyStr(r.ret) THEN sent + 1 ELSE sent
                         /\ i' = IF TruthyStr(r.ret) THEN i + 1
                                 ELSE args.test_transactions[1]
                /\ clock' = clock + SleepSecs
                /\ UNCHANGED <<pc, exitcode>>
    /\ UNCHANGED <<args, session, ev, line, command, status, ni, wallets, nlines>>

\* One iteration of the loop: pick the pair, send, report, sleep
SendTestTransaction ==
    /\ pc = "stt_loop" /\ i < args.test_transactions[1]
    /\ LET n == Len(wallets)
           from_wallet == wallets[BatchFrom(i, n)]
           to_wallet == wallets[BatchTo(i, n)]
       IN  IF "address" \notin DOMAIN from_wallet \/ "address" \notin DOMAIN to_wallet
           THEN /\ out' = Append(out, Crash("KeyError: 'address'").msg)
                /\ pc' = "exit"
                /\ exitcode' = Crash("KeyError: 'address'").exitcode
                /\ UNCHANGED <<reqs, response, i, sent, clock>>
           ELSE /\ \E resp \in SendResps :
                     LET r == send_transaction(resp)
                     IN  /\ response' = resp
                         /\ reqs' = Append(reqs,
                                       SendReq(from_wallet["address"], to_wallet["address"],
                                               BatchAmount(i), DefaultGasPrice))
                         /\ out' = out \o r.out \o
                               <<IF TruthyStr(r.ret)
                                 THEN Msg("Transaction {i+1}/{count}: {tx_hash[:16]}...",
                                          r.ret[1], i + 1, <<>>)
                                 ELSE MN("Failed to send transaction {i+1}", i + 1)>>
                         /\ sent' = IF TruthyStr(r.ret) THEN sent + 1 ELSE sent
                /\ clock' = clock + SleepSecs
                /\ i' = i + 1
                /\ UNCHANGED <<pc, exitcode>>
    /\ UNCHANGED <<args, session, ev, line, command, status, ni, wallets, nlines>>

\* After the loop: the summary
TestTransactionsDone ==
    /\ pc = "stt_loop" /\ i >= args.test_transactions[1]
    /\ out' = Append(out, MN("Sent {sent}/{count} test transactions successfully", sent))
    /\ pc' = "exit"
    /\ exitcode' = 0
    /\ UNCHANGED <<args, response, session, ev, line, command, reqs, status, ni, wallets,
                   i, sent, clock, nlines>>

---------------------------------------------------------------------------
(* interactive_mode *)

MainInteractive ==
    /\ pc = "main" /\ Selected(args) = "interactive"
    /\ out' = out \o <<M("PolyTorus Interactive Mode"),
                       M("Type 'help' for available commands, 'quit' to exit")>>
    /\ session' = "Running"
    /\ pc' = "read"
    /\ UNCHANGED <<args, response, ev, line, command, reqs, status, ni, wallets, i, sent,
                   clock, exitcode, nlines>>

\* command = input(...).strip().lower()
Normalize(l) == Lower(Strip(l))

\* input() returns a line
ReadLine ==
    /\ pc = "read" /\ session = "Running"
    /\ ev # "eof" /\ nlines < MaxLines
    /\ \E l \in Lines :
         /\ line' = l
         /\ command' = Normalize(l)
    /\ ev' = "line"
    /\ nlines' = nlines + 1
    /\ out' = <<>>
    /\ reqs' = <<>>
    /\ response' = NoResponse
    /\ pc' = "dispatch"
    /\ UNCHANGED <<args, session, status, ni, wallets, i, sent, clock, exitcode>>

\* input() raises EOFError at the end of the input stream
ReadEOF ==
    /\ pc = "read" /\ session = "Running"
    /\ ev' = "eof"
    /\ out' = <<>>
    /\ reqs' = <<>>
    /\ response' = NoResponse
    /\ pc' = "eof_raised"
    /\ UNCHANGED <<args, session, line, command, status, ni, wallets, i,
                   sent, clock, exitcode, nlines>>

\* ... and the handler of Exception prints it; the loop calls input() again
CatchEOF ==
    /\ pc = "eof_raised"
    /\ out' = Append(out, Catch("EOFError").msg)
    /\ session' = Catch("EOFError").session
    /\ pc' = Catch("EOFError").pc
    /\ UNCHANGED <<args, ev, line, command, reqs, response, status, ni, wallets, i,
                   sent, clock, exitcode, nlines>>

\* KeyboardInterrupt reaching the try block of the loop: while input()
\* waits for the next line, or while a command is being handled (an
\* interrupt delivered during a probe's request never gets here: see
\* check_node_status)
Interrupt ==
    /\ session = "Running"
    /\ pc \in {"read", "dispatch", "probe", "ps_stats"}
    /\ IF pc = "read"
       THEN out' = <<M("Exiting...")>> /\ reqs' = <<>> /\ response' = NoResponse
       ELSE out' = Append(out, M("Exiting...")) /\ reqs' = reqs /\ response' = response
    /\ ev' = "interrupt"
    /\ session' = "Terminated"
    /\ pc' = "exit"
    /\ exitcode' = 0
    /\ UNCHANGED <<args, line, command, status, ni, wallets, i, sent, clock,
                   nlines>>

\* command == 'quit' or command == 'exit'
IsQuit(c) == c = <<"quit">> \/ c = <<"exit">>

\* The chain of conditionals over `command`
Branch(c) ==
    IF IsQuit(c) THEN "quit"
    ELSE IF c = <<"help">> THEN "help"
    ELSE IF c = <<"status">> THEN "status"
    ELSE IF c = <<"wallets">> THEN "wallets"
    ELSE IF c = <<"create-wallet">> THEN "create-wallet"
    ELSE IF StartsWith(c, <<"balance", " ">>) THEN "balance"
    ELSE IF StartsWith(c, <<"send", " ">>) THEN "send"
    ELSE IF c = <<"transactions">> THEN "transactions"
    ELSE IF c = <<"stats">> THEN "stats"
    ELSE IF c = <<>> THEN "empty"
    ELSE "unknown"

CmdQuit ==
    /\ pc = "dispatch" /\ Branch(command) = "quit"
    /\ session' = "Terminated"
    /\ pc' = "exit"
    /\ exitcode' = 0
    /\ UNCHANGED <<args, response, ev, line, command, out, reqs, status, ni, wallets, i,
                   sent, clock, nlines>>

CmdHelp_AsksGateway ==
    /\ pc = "dispatch" /\ Branch(command) = "help"
    /\ out' = Append(out, M("Available commands: ..."))
    /\ reqs' = Append(reqs, StatsReq)
    /\ pc' = "read"
    /\ UNCHANGED <<args, response, session, ev, line, command, status, ni, wallets,
                   i, sent, clock, exitcode, nlines>>

CmdHelp ==
    /\ pc = "dispatch" /\ Branch(command) = "help"
    /\ out' = Append(out, M("Available commands: ..."))
    /\ pc' = "read"
    /\ UNCHANGED <<args, response, session, ev, line, command, reqs, status, ni, wallets,
                   i, sent, clock, exitcode, nlines>>

CmdStatus ==
    /\ pc = "dispatch" /\ Branch(command) = "status"
    /\ EnterPrintStatus
    /\ UNCHANGED <<args, response, session, ev, line, command, reqs, wallets, i, sent,
                   clock, exitcode, nlines>>

CmdWallets ==
    /\ pc = "dispatch" /\ Branch(command) = "wallets"
    /\ \E resp \in ListWalletsResps :
         LET r == list_wallets(resp)
         IN  /\ response' = resp
             /\ reqs' = Append(reqs, ListWalletsReq)
             /\ out' = out \o r.out \o
                   (IF ~TruthyList(r.ret)
                    THEN <<M("No wallets found. Create one with 'create-wallet'")>>
                    ELSE <<M("Available Wallets:")>> \o WalletLines(r.ret) \o
                         (IF WalletsRaise(r.ret)
                          THEN <<Catch("KeyError: 'address'").msg>> ELSE <<>>))
             /\ IF TruthyList(r.ret) /\ WalletsRaise(r.ret)
                THEN /\ session' = Catch("KeyError: 'address'").session
                     /\ pc' = Catch("KeyError: 'address'").pc
                ELSE /\ session' = session
                     /\ pc' = "read"
    /\ UNCHANGED <<args, ev, line, command, status, ni, wallets, i,
                   sent, clock, exitcode, nlines>>

CmdCreateWallet ==
    /\ pc = "dispatch" /\ Branch(command) = "create-wallet"
    /\ \E resp \in CreateWalletResps :
         LET r == create_wallet(resp)
         IN  /\ response' = resp
             /\ reqs' = Append(reqs, CreateWalletReq)
             /\ out' = out \o r.out \o
                   (IF ~TruthyDict(r.ret) THEN <<M("Failed to create wallet")>>
                    ELSE IF "address" \notin DOMAIN r.ret[1]
                    THEN <<Catch("KeyError: 'address'").msg>>
                    ELSE <<MS("New wallet created: {address}", r.ret[1]["address"])>>)
             /\ IF TruthyDict(r.ret) /\ "address" \notin DOMAIN r.ret[1]
                THEN /\ session' = Catch("KeyError: 'address'").session
                     /\ pc' = Catch("KeyError: 'address'").pc
                ELSE /\ session' = session
                     /\ pc' = "read"
    /\ UNCHANGED <<args, ev, line, command, status, ni, wallets, i,
                   sent, clock, exitcode, nlines>>

\* interactive_mode: if balance is not None ... else ...
ShowBalance(balance) ==
    IF balance # None THEN MN("Balance: {balance} POLY", balance[1])
    ELSE M("Failed to get balance")

\* len(parts) == 2
BalanceArity(parts) == Len(parts) = 2

CmdBalance ==
    /\ pc = "dispatch" /\ Branch(command) = "balance"
    /\ LET parts == Split(command)
       IN  IF BalanceArity(parts)
           THEN \E resp \in BalanceResps :
                  LET r == get_balance(resp)
                  IN  /\ response' = resp
                      /\ reqs' = Append(reqs, BalanceReq(parts[2]))
                      /\ out' = out \o r.out \o <<ShowBalance(r.ret)>>
           ELSE /\ out' = Append(out, M("Usage: balance <address>"))
                /\ reqs' = reqs /\ response' = response
    /\ pc' = "read"
    /\ UNCHANGED <<args, session, ev, line, command, status, ni, wallets, i,
                   sent, clock, exitcode, nlines>>

\* len(parts) >= 4
SendArity(parts) == Len(parts) >= 4

CmdSend ==
    /\ pc = "dispatch" /\ Branch(command) = "send"
    /\ LET parts == Split(command)
       IN  IF SendArity(parts)
           THEN IF float(parts[4]) = None
                THEN /\ out' = Append(out, M("Invalid amount"))
                     /\ reqs' = reqs /\ response' = response
                ELSE \E resp \in SendResps :
                       LET r == send_transaction(resp)
                       IN  /\ response' = resp
                           /\ reqs' = Append(reqs,
                                        SendReq(parts[2], parts[3], float(parts[4])[1],
                                                DefaultGasPrice))
                           /\ out' = out \o r.out \o
                                 <<IF TruthyStr(r.ret)
                                   THEN MS("Transaction sent: {tx_hash}", r.ret[1])
                                   ELSE M("Failed to send transaction")>>
           ELSE /\ out' = Append(out, M("Usage: send <from_address> <to_address> <amount>"))
                /\ reqs' = reqs /\ response' = response
    /\ pc' = "read"
    /\ UNCHANGED <<args, session, ev, line, command, status, ni, wallets, i,
                   sent, clock, exitcode, nlines>>

Last_First(txs, k) == SubSeq(txs, 1, Min(Len(txs), k))

\* txs[-10:]
Last(txs, k) == SubSeq(txs, Len(txs) - Min(Len(txs), k) + 1, Len(txs))

TxFields == {"hash", "from", "to", "amount"}

TxLine(tx) ==
    Msg("{hash[:16]}... {from[:8]}->{to[:8]} {amount} POLY", "", tx["amount"],
        <<tx["hash"], tx["from"], tx["to"]>>)

FirstBadTx(txs) ==
    IF \E k \in 1..Len(txs) : ~(TxFields \subseteq DOMAIN txs[k])
    THEN CHOOSE k \in 1..Len(txs) :
           /\ ~(TxFields \subseteq DOMAIN txs[k])
           /\ \A m \in 1..(k - 1) : TxFields \subseteq DOMAIN txs[m]
    ELSE Len(txs) + 1

TxLines(txs) == [k \in 1..(FirstBadTx(txs) - 1) |-> TxLine(txs[k])]

CmdTransactions ==
    /\ pc = "dispatch" /\ Branch(command) = "transactions"
    /\ \E resp \in RecentResps :
         LET r == get_recent_transactions(resp)
             shown == Last(r.ret, ShowLast)
         IN  /\ response' = resp
             /\ reqs' = Append(reqs, RecentReq)
             /\ out' = out \o r.out \o
                   (IF ~TruthyList(r.ret) THEN <<M("No recent transactions")>>
                    ELSE <<M("Recent Transactions:")>> \o TxLines(shown) \o
                         (IF FirstBadTx(shown) <= Len(shown)
                          THEN <<Catch("KeyError").msg>> ELSE <<>>))
             /\ IF TruthyList(r.ret) /\ FirstBadTx(shown) <= Len(shown)
                THEN /\ session' = Catch("KeyError").session
                     /\ pc' = Catch("KeyError").pc
                ELSE /\ session' = session
                     /\ pc' = "read"
    /\ UNCHANGED <<args, ev, line, command, status, ni, wallets, i,
                   sent, clock, exitcode, nlines>>

CmdStats ==
    /\ pc = "dispatch" /\ Branch(command) = "stats"
    /\ \E resp \in StatsResps :
         LET r == get_blockchain_stats(resp)
         IN  /\ response' = resp
             /\ reqs' = Append(reqs, StatsReq)
             /\ out' = out \o r.out \o
                   (IF TruthyDict(r.ret)
                    THEN <<M("Blockchain Statistics:")>> \o StatLines(r.ret[1])
                    ELSE <<M("Unable to fetch statistics")>>)
    /\ pc' = "read"
    /\ UNCHANGED <<args, session, ev, line, command, status, ni, wallets, i,
                   sent, clock, exitcode, nlines>>

CmdEmpty ==
    /\ pc = "dispatch" /\ Branch(command) = "empty"
    /\ pc' = "read"
    /\ UNCHANGED <<args, response, session, ev, line, command, out, reqs, status, ni,
                   wallets, i, sent, clock, exitcode, nlines>>

UnknownText_Raw(l, c) == l

\* The text interpolated into the unknown-command message: {command}
UnknownText(l, c) == c

CmdUnknown ==
    /\ pc = "dispatch" /\ Branch(command) = "unknown"
    /\ out' = Append(out, MT("Unknown command: {command}. Type 'help' for available commands.",
                             UnknownText(line, command)))
    /\ pc' = "read"
    /\ UNCHANGED <<args, response, session, ev, line, command, reqs, status, ni, wallets,
                   i, sent, clock, exitcode, nlines>>

---------------------------------------------------------------------------

Next ==
    \/ MainStatus
    \/ MainInteractive
    \/ MainTestTransactions
    \/ MainCreateWallet
    \/ MainListWallets
    \/ MainBalance
    \/ MainUsage
    \/ Probe
    \/ PrintNodes
    \/ PrintStatusStats
    \/ SendTestTransaction
    \/ TestTransactionsDone
    \/ ReadLine
    \/ ReadEOF
    \/ CatchEOF
    \/ Interrupt
    \/ CmdQuit
    \/ CmdHelp
    \/ CmdStatus
    \/ CmdWallets
    \/ CmdCreateWallet
    \/ CmdBalance
    \/ CmdSend
    \/ CmdTransactions
    \/ CmdStats
    \/ CmdEmpty
    \/ CmdUnknown

Spec == Init /\ [][Next]_vars

---------------------------------------------------------------------------
(* The interactive session on its own, with the progress the interpreter   *)
(* guarantees: `python3 testnet_manager.py --interactive`.                  *)

InitSession ==
    /\ Init
    /\ args = [status |-> FALSE, interactive |-> TRUE, test_transactions |-> None,
               create_wallet |-> FALSE, list_wallets |-> FALSE, balance |-> None]

\* The steps the program takes by itself: a statement that can run does
\* run, input() returns once the stream has a line or is at its end, and a
\* request ends with a response or an exception.
SessionProgram ==
    \/ MainInteractive
    \/ ReadLine
    \/ ReadEOF
    \/ CatchEOF
    \/ CmdQuit
    \/ CmdHelp
    \/ CmdStatus
    \/ Probe
    \/ PrintNodes
    \/ PrintStatusStats
    \/ CmdWallets
    \/ CmdCreateWallet
    \/ CmdBalance
    \/ CmdSend
    \/ CmdTransactions
    \/ CmdStats
    \/ CmdEmpty
    \/ CmdUnknown

\* The operator may press Ctrl-C at any time, and need not.
NextSession ==
    \/ SessionProgram
    \/ Interrupt

LiveSpec == InitSession /\ [][NextSession]_vars /\ WF_vars(SessionProgram)

---------------------------------------------------------------------------
(* Properties *)

Printed(t) == \E k \in DOMAIN out : out[k].t = t

LastPrinted(t) == out # <<>> /\ out[Len(out)].t = t

\* The loop has finished with the line it read and is back at input()
Handled == ev = "line" /\ pc = "read"

\* get_network_status has run through the registry and returns `status`
NetworkStatusReturned ==
    \/ pc = "probe" /\ ni > Len(NodeNames)
    \/ pc = "ps_stats"

\* C1: whatever the five probes answer, get_network_status returns a mapping
\* whose keys are exactly the five registry names, each entry holding a
\* boolean `online` and the registered URL of that node.
C1_NetworkStatusShape ==
    NetworkStatusReturned =>
        /\ DOMAIN status = {"bootstrap", "miner-1", "miner-2", "validator", "api-gateway"}
        /\ Cardinality(DOMAIN status) = 5
        /\ \A n \in DOMAIN status :
             /\ DOMAIN status[n] = {"online", "url"}
             /\ status[n].online \in BOOLEAN
             /\ status[n].url = nodes[n]

\* C1 witness: the mapping is returned although every probe failed
C1_AllProbesFailed ==
    /\ NetworkStatusReturned
    /\ Len(reqs) = 5
    /\ \A n \in DOMAIN status : ~status[n].online

\* A balance query has just been answered and reported
BalanceReported ==
    /\ pc \in {"read", "exit"}
    /\ reqs # <<>>
    /\ reqs[Len(reqs)].path = "/balance/"

\* C2: get_balance returns None (not 0) when the gateway is unreachable or
\* answers a non-success status, and 0 when a 200 body lacks `balance`; the
\* interactive command and the --balance action print a balance line for 0
\* and the failure line for None.
C2_BalanceAbsentVsZero ==
    BalanceReported =>
        /\ (response.exc # "" \/ response.code \notin 200..299) =>
             /\ get_balance(response).ret = None
             /\ LastPrinted("Failed to get balance")
        /\ (response.exc = "" /\ response.code = 200 /\ response.json
              /\ "balance" \notin DOMAIN response.body) =>
             /\ get_balance(response).ret = Some(0)
             /\ LastPrinted("Balance: {balance} POLY")
             /\ out[Len(out)].n = 0

\* C2 witness: the interactive command shows a zero balance for a 200 body
\* without the field
C2_ZeroBalanceShown ==
    /\ BalanceReported
    /\ session = "Running"
    /\ response = Ok200(<<>>)
    /\ LastPrinted("Balance: {balance} POLY")
    /\ out[Len(out)].n = 0

BatchStarted == Selected(args) = "test_transactions" /\ pc # "main"

BatchDone ==
    /\ BatchStarted
    /\ pc = "exit"
    /\ LastPrinted("Sent {sent}/{count} test transactions successfully")

\* The k-th call (k from 0) the batch is to make with the wallets ws
ExpectedSend(k, ws) ==
    SendReq(ws[(k % Len(ws)) + 1]["address"], ws[((k + 1) % Len(ws)) + 1]["address"],
            10 + k, 1)

\* C3: with n >= 2 wallets the batch issues its sendTransaction calls one
\* after another, the i-th (i = 0..count-1) from wallets[i mod n] to
\* wallets[(i+1) mod n] with amount 1.0 + 0.1*i, and exactly `count` of
\* them by the time it reports.
C3_BatchSchedule ==
    (BatchStarted /\ Len(wallets) >= 2) =>
        /\ reqs[1] = ListWalletsReq
        /\ \A k \in 2..Len(reqs) : reqs[k] = ExpectedSend(k - 2, wallets)
        /\ pc = "stt_loop" => Len(reqs) = 1 + i
        /\ BatchDone =>
             Tail(reqs) = [k \in 1..args.test_transactions[1] |->
                             ExpectedSend(k - 1, wallets)]

\* C3 witness: count = 5 with two wallets
C3_FiveSendsTwoWallets ==
    /\ BatchDone
    /\ args.test_transactions = Some(5)
    /\ Len(wallets) = 2
    /\ Len(reqs) = 6
    /\ [k \in 1..5 |-> reqs[k + 1].payload[1].amount] = <<10, 11, 12, 13, 14>>
    /\ [k \in 1..5 |-> <<reqs[k + 1].payload[1].from, reqs[k + 1].payload[1].to>>]
         = << <<"w0", "w1">>, <<"w1", "w0">>, <<"w0", "w1">>, <<"w1", "w0">>,
              <<"w0", "w1">> >>

\* C4: with fewer than 2 wallets (the empty list of a gateway error
\* included) the batch aborts at once for every count: the abort message,
\* no sendTransaction call, no summary.
C4_TooFewWalletsAbort ==
    /\ (BatchStarted /\ Len(wallets) < 2) =>
         /\ pc = "exit"
         /\ reqs = <<ListWalletsReq>>
         /\ LastPrinted("Need at least 2 wallets for test transactions")
         /\ ~Printed("Sent {sent}/{count} test transactions successfully")
    /\ (BatchStarted /\ Len(reqs) = 1
          /\ (response.exc # "" \/ response.code # 200 \/ ~response.json)) =>
         wallets = <<>>

\* C4 witness: one wallet, count = 5
C4_OneWalletAbort ==
    /\ BatchStarted
    /\ Len(wallets) = 1
    /\ args.test_transactions = Some(5)
    /\ LastPrinted("Need at least 2 wallets for test transactions")

\* The words typed on a line, as typed
Words(l) == Split(Strip(l))

\* C5: an interactive `balance` line with zero or with two or more
\* arguments never calls the gateway and prints the usage message; with
\* exactly one argument it calls getBalance once with that argument as the
\* address.
C5_BalanceArity ==
    (Handled /\ Words(line) # <<>> /\ Words(line)[1] = "balance") =>
        IF Len(Words(line)) = 2
        THEN reqs = <<BalanceReq(Words(line)[2])>>
        ELSE reqs = <<>> /\ LastPrinted("Usage: balance <address>")

\* The word parses as a decimal greater than zero
PositiveDecimal(w) == float(w) # None /\ float(w)[1] > 0

\* C6: an interactive `send <from> <to> <amount>` line whose amount is not a
\* positive decimal (not a number, zero, negative) never calls
\* sendTransaction and prints the invalid-amount message.
C6_InvalidAmountRejected ==
    (Handled /\ Len(Words(line)) = 4 /\ Words(line)[1] = "send"
       /\ ~PositiveDecimal(Words(line)[4])) =>
        reqs = <<>> /\ LastPrinted("Invalid amount")

\* C7: an interactive `send` line with fewer or with more than three
\* arguments prints the usage message and issues no sendTransaction call.
C7_SendArity ==
    (Handled /\ Words(line) # <<>> /\ Words(line)[1] = "send"
       /\ Len(Words(line)) # 4) =>
        reqs = <<>> /\ LastPrinted("Usage: send <from_address> <to_address> <amount>")

QuitTyped(l) == Lower(Strip(l)) \in { <<"quit">>, <<"exit">> }

\* An interrupt signal reached the process during the session: it was
\* raised into the loop, or into the request of a probe
Interrupted ==
    \/ ev = "interrupt"
    \/ session # "NotStarted" /\ response.exc = "KeyboardInterrupt"

\* C8: the session stays Running after every line except quit and exit
\* (read in any letter case, surrounding whitespace aside), is Terminated
\* exactly on quit, exit or an interrupt signal, and once Terminated reads
\* and dispatches nothing more.
C8_TerminatesOnQuitOrInterrupt ==
    /\ session = "Terminated" => (Interrupted \/ (ev = "line" /\ QuitTyped(line)))
    /\ (ev = "line" /\ pc # "dispatch" /\ QuitTyped(line)) => session = "Terminated"
    /\ Interrupted => session = "Terminated"
    /\ (ev = "line" /\ ~QuitTyped(line) /\ ~Interrupted) => session = "Running"
    /\ session = "Terminated" => (pc = "exit" /\ ~ENABLED Next)

\* The record the gateway returned lacks a field the display code reads
RecordLacksField ==
    /\ response.exc = "" /\ response.code = 200 /\ response.json
    /\ \/ /\ command = <<"wallets">>
          /\ \E k \in DOMAIN response.body : "address" \notin DOMAIN response.body[k]
       \/ /\ command = <<"create-wallet">>
          /\ DOMAIN response.body # {}
          /\ "address" \notin DOMAIN response.body
       \/ /\ command = <<"transactions">>
          /\ \E k \in DOMAIN response.body :
               /\ k > Len(response.body) - 10
               /\ ~({"hash", "from", "to", "amount"} \subseteq DOMAIN response.body[k])

\* C9: an exception raised while a line is handled is caught at the loop
\* boundary and printed, and the session is still Running and at input()
\* for the next line.
C9_ExceptionsCaught ==
    session # "NotStarted" =>
        /\ ~Printed("Traceback")
        /\ (Handled /\ RecordLacksField) => LastPrinted("Error: {e}")
        /\ \A k \in DOMAIN out :
             out[k].t = "Error: {e}" =>
                /\ k = Len(out)
                /\ session = "Running"
                /\ pc = "read"
                /\ (nlines < MaxLines /\ ev # "eof") => ENABLED ReadLine

\* C9 witness: a wallet without an address made the `wallets` command raise
\* and the loop is ready to read the second line
C9_KeyErrorCaught ==
    /\ Handled
    /\ command = <<"wallets">>
    /\ RecordLacksField
    /\ LastPrinted("Error: {e}")
    /\ out[Len(out)].s = "KeyError: 'address'"
    /\ session = "Running"
    /\ nlines = 1
    /\ ENABLED ReadLine

CommandWords ==
    { "quit", "exit", "help", "status", "wallets", "create-wallet", "balance",
      "send", "transactions", "stats" }

\* The line's first word is no command of the grammar, in any letter case
UnknownTyped(l) == Words(l) # <<>> /\ LowerToken(Words(l)[1]) \notin CommandWords

\* small occurs in big as a run of consecutive tokens
Contains(big, small) ==
    \E k \in 0..(Len(big) - Len(small)) : SubSeq(big, k + 1, k + Len(small)) = small

\* C10 as stated: an unknown command prints a message containing the
\* literal text of the offending input, issues no gateway call and leaves
\* the session Running.
C10_UnknownEchoesInput ==
    (Handled /\ UnknownTyped(line)) =>
        /\ Len(out) = 1
        /\ out[1].t = "Unknown command: {command}. Type 'help' for available commands."
        /\ Contains(out[1].toks, Strip(line))
        /\ reqs = <<>>
        /\ session = "Running"

\* C10 amended: an unknown command prints a message containing the input
\* with surrounding whitespace trimmed and its letters lower-cased, issues
\* no gateway call and leaves the session Running.
C10_UnknownEchoesCommand ==
    (Handled /\ UnknownTyped(line)) =>
        /\ Len(out) = 1
        /\ out[1].t = "Unknown command: {command}. Type 'help' for available commands."
        /\ out[1].toks = Lower(Strip(line))
        /\ reqs = <<>>
        /\ session = "Running"

\* C10 witness: Foo was typed and foo is what the message names
C10_UnknownFoo ==
    /\ Handled
    /\ line = <<"Foo">>
    /\ out[1].toks = <<"foo">>
    /\ session = "Running"

---------------------------------------------------------------------------
(* One-shot dispatch *)

\* The action main() entered, read off what the process did first
Ran ==
    IF pc = "main" THEN "none"
    ELSE IF session # "NotStarted" THEN "interactive"
    ELSE IF out # <<>> /\ out[1].t = "PolyTorus Local Testnet Status" THEN "status"
    ELSE IF out # <<>> /\ out[1].t = "Sending {count} test transactions..."
    THEN "test_transactions"
    ELSE IF out # <<>> /\ out[1].t = "PolyTorus Local Testnet Manager" THEN "usage"
    ELSE IF reqs # <<>> /\ reqs[1].path = "/wallet/create" THEN "create_wallet"
    ELSE IF reqs # <<>> /\ reqs[1].path = "/wallet/list" THEN "list_wallets"
    ELSE IF reqs # <<>> /\ reqs[1].path = "/balance/" THEN "balance"
    ELSE "none"

\* The first flag present on the command line, in the priority order
FirstSupplied(a) ==
    IF a.status THEN "status"
    ELSE IF a.interactive THEN "interactive"
    ELSE IF a.test_transactions # None THEN "test_transactions"
    ELSE IF a.create_wallet THEN "create_wallet"
    ELSE IF a.list_wallets THEN "list_wallets"
    ELSE IF a.balance # None THEN "balance"
    ELSE "usage"

\* C11: for every combination of flags and every COUNT and ADDRESS, main()
\* runs the action of the first supplied flag in the order status >
\* interactive > test-transactions > create-wallet > list-wallets > balance
\* and no other, and prints the usage hint exactly when no flag is given.
C11_FirstSuppliedRuns ==
    pc # "main" => Ran = FirstSupplied(args)

---------------------------------------------------------------------------
(* Gateway Client *)

GatewayPaths ==
    { "/wallet/create", "/wallet/list", "/balance/", "/transaction/send",
      "/transaction/recent", "/network/status" }

LastReq == reqs[Len(reqs)]

\* The latest request is a gateway operation's and the operation has
\* returned to its caller, which has acted on the value
AfterGatewayCall ==
    /\ reqs # <<>>
    /\ LastReq.path \in GatewayPaths
    /\ \/ pc = "read" /\ ev = "line"
       \/ pc = "stt_loop"
       \/ pc = "exit" /\ session = "NotStarted" /\ Len(reqs) = 1

\* What the operation returned for the response it got
Returned ==
    CASE LastReq.path = "/wallet/create" -> create_wallet(response).ret
      [] LastReq.path = "/wallet/list" -> list_wallets(response).ret
      [] LastReq.path = "/balance/" -> get_balance(response).ret
      [] LastReq.path = "/transaction/send" -> send_transaction(response).ret
      [] LastReq.path = "/transaction/recent" -> get_recent_transactions(response).ret
      [] LastReq.path = "/network/status" -> get_blockchain_stats(response).ret

\* A network exception or a non-success status
Failed(resp) ==
    \/ resp.exc \in {"ConnectionError", "Timeout"}
    \/ resp.exc = "" /\ resp.code \notin 200..299

\* The failure value spec'd for an operation: the empty list for the two
\* listing operations, None for the others
FailureValue(path) ==
    IF path \in {"/wallet/list", "/transaction/recent"} THEN <<>> ELSE None

\* C12: a gateway operation issues one request and never the same request
\* again; on a network exception or a non-success status it returns its
\* failure value (None, or the empty list for list_wallets and
\* get_recent_transactions) and its caller sees no exception.
C12_GatewayFailureValues ==
    /\ \A j, k \in DOMAIN reqs : j < k => reqs[j] # reqs[k]
    /\ (pc = "exit" /\ Ran \in {"create_wallet", "list_wallets", "balance"}) =>
          Len(reqs) = 1
    /\ (AfterGatewayCall /\ Failed(response)) =>
          /\ Returned = FailureValue(LastReq.path)
          /\ ~Printed("Traceback")
          /\ ~Printed("Error: {e}")

\* C12 witness: --create-wallet against a gateway answering 500
C12_CreateWalletHttp500 ==
    /\ pc = "exit"
    /\ Ran = "create_wallet"
    /\ reqs = <<CreateWalletReq>>
    /\ response.code = 500
    /\ Returned = None
    /\ out = << MN("Failed to create wallet: HTTP {status_code}", 500),
                M("Failed to create wallet") >>

---------------------------------------------------------------------------
(* One-shot mode: exit code *)

OneShotEnded == session = "NotStarted" /\ pc = "exit"

\* A wallet record the gateway returned with a 200 lacks `address`, the
\* field the data model requires of every wallet
WalletLacksAddress ==
    \/ \E k \in DOMAIN wallets : "address" \notin DOMAIN wallets[k]
    \/ /\ reqs # <<>> /\ response.exc = "" /\ response.code = 200 /\ response.json
       /\ \/ /\ LastReq.path = "/wallet/create"
             /\ "address" \notin DOMAIN response.body
          \/ /\ LastReq.path = "/wallet/list"
             /\ \E k \in DOMAIN response.body : "address" \notin DOMAIN response.body[k]

\* C13: in one-shot mode, whatever each HTTP call meets (no connection, a
\* non-success status, a body that is not JSON, a 200 whose optional fields
\* are missing), the action ends with printed text and exit code 0 and no
\* traceback is printed.
C13_OneShotExitsZero ==
    (session = "NotStarted" /\ ~WalletLacksAddress) =>
        /\ ~Printed("Traceback")
        /\ exitcode = 0
        /\ pc = "exit" => out # <<>>

\* C13 witness: a batch of two sends over wallets without `type`, both
\* sends refused by an unreachable gateway, ends with the summary and 0
C13_BatchAllSendsFail ==
    /\ OneShotEnded
    /\ BatchDone
    /\ args.test_transactions = Some(2)
    /\ \E k \in DOMAIN wallets : "type" \notin DOMAIN wallets[k]
    /\ response.exc = "ConnectionError"
    /\ sent = 0
    /\ exitcode = 0

---------------------------------------------------------------------------
(* Status Prober *)

\* A probe has just returned into get_network_status
ProbeReturned == pc = "probe" /\ ni > 1

\* The node the latest probe was sent to
Probed == NodeNames[ni - 1]

\* C14: a probe never raises to get_network_status and returns true exactly
\* when the /status request got a response with a success (2xx) status
\* within the timeout; false on a timeout, a connection failure and any
\* other status.
C14_ProbeTrueOn2xx ==
    ProbeReturned =>
        /\ Probed \in DOMAIN status
        /\ LastReq = ProbeReq(nodes[Probed])
        /\ status[Probed].online = (response.exc = "" /\ response.code \in 200..299)

---------------------------------------------------------------------------
(* Chain statistics *)

\* The chain-statistics request got a 200 with a JSON object and the
\* display (print_status, or the `stats` command) has finished
StatsShown ==
    /\ reqs # <<>>
    /\ LastReq = StatsReq
    /\ pc \in {"read", "exit"}
    /\ ev # "interrupt"
    /\ response.exc = "" /\ response.code = 200 /\ response.json

\* The line a field is displayed on
FieldLine(label, key, body) ==
    IF key \in DOMAIN body
    THEN Msg(label, "", body[key], <<>>)
    ELSE Msg(label, "N/A", 0, <<>>)

\* C15: for every subset of blockHeight, totalTransactions and difficulty
\* missing from a 200 response, all three included, the `status` and
\* `stats` displays print every present field's value and N/A for every
\* absent one, and not the unable-to-fetch message.
C15_AbsentFieldsRenderNA ==
    StatsShown =>
        /\ ~Printed("Unable to fetch blockchain statistics")
        /\ ~Printed("Unable to fetch statistics")
        /\ Len(out) >= 3
        /\ SubSeq(out, Len(out) - 2, Len(out)) =
             << FieldLine("Block Height: {}", "blockHeight", response.body),
                FieldLine("Total Transactions: {}", "totalTransactions", response.body),
                FieldLine("Difficulty: {}", "difficulty", response.body) >>

---------------------------------------------------------------------------
(* The `transactions` display *)

\* The `transactions` command has run to its end on the list that
\* get_recent_transactions returned, every record of it complete
TransactionsShown ==
    /\ Handled
    /\ command = <<"transactions">>
    /\ reqs = <<RecentReq>>
    /\ \A k \in DOMAIN Returned :
         {"hash", "from", "to", "amount"} \subseteq DOMAIN Returned[k]

\* The hashes of the records displayed, top to bottom
ShownHashes == [j \in 1..(Len(out) - 1) |-> out[j + 1].toks[1]]

\* C16: of the k records get_recent_transactions returned, the
\* `transactions` command displays the last min(k, 10) in their original
\* order, and the empty-state message when k = 0.
C16_LastTenInOrder ==
    TransactionsShown =>
        LET k == Len(Returned)
            m == IF k < 10 THEN k ELSE 10
        IN  IF k = 0
            THEN LastPrinted("No recent transactions")
            ELSE /\ out[1].t = "Recent Transactions:"
                 /\ Len(out) = 1 + m
                 /\ \A j \in 1..m :
                      /\ out[1 + j].toks = << Returned[k - m + j]["hash"],
                                              Returned[k - m + j]["from"],
                                              Returned[k - m + j]["to"] >>
                      /\ out[1 + j].n = Returned[k - m + j]["amount"]

\* C16 witness: 15 records returned, the 6th to the 15th displayed
C16_FifteenShowsLastTen ==
    /\ TransactionsShown
    /\ Len(Returned) = 15
    /\ Len(out) = 11
    /\ ShownHashes = <<6, 7, 8, 9, 10, 11, 12, 13, 14, 15>>

---------------------------------------------------------------------------
(* get_network_status: order of the probes *)

\* The probes of a full pass over the registry
RegistryProbes ==
    << ProbeReq("http://localhost:9000"), ProbeReq("http://localhost:9001"),
       ProbeReq("http://localhost:9002"), ProbeReq("http://localhost:9003"),
       ProbeReq("http://localhost:9020") >>

RegistryOrder == <<"bootstrap", "miner-1", "miner-2", "validator", "api-gateway">>

\* C17: get_network_status probes every registry entry once, in the order
\* bootstrap, miner-1, miner-2, validator, api-gateway, one after another:
\* when a probe is issued every earlier probe has returned and its result
\* is stored, and a failed probe neither skips nor stops the later ones.
C17_ProbesInRegistryOrder ==
    /\ pc = "probe" =>
         /\ ni \in 1..6
         /\ reqs = SubSeq(RegistryProbes, 1, ni - 1)
         /\ DOMAIN status = {RegistryOrder[k] : k \in 1..(ni - 1)}
    /\ pc = "ps_stats" =>
         /\ reqs = RegistryProbes
         /\ DOMAIN status = {RegistryOrder[k] : k \in 1..5}
    /\ (reqs # <<>> /\ LastReq = StatsReq /\ Len(reqs) > 1) =>
         reqs = Append(RegistryProbes, StatsReq)

\* C17 witness: in a session the probes of bootstrap and miner-1 failed and
\* the three after them were still made
C17_LaterProbesAfterFailures ==
    /\ session = "Running"
    /\ pc = "ps_stats"
    /\ reqs = RegistryProbes
    /\ ~status["bootstrap"].online
    /\ ~status["miner-1"].online
    /\ status["miner-2"].online
    /\ status["api-gateway"].online

---------------------------------------------------------------------------
(* send_test_transactions: pacing and summary *)

\* The batch has its wallets, at least two, each with an address
BatchRunning ==
    /\ BatchStarted
    /\ Len(wallets) >= 2
    /\ \A k \in DOMAIN wallets : "address" \in DOMAIN wallets[k]

\* sendTransaction calls made so far (the first request lists the wallets)
Attempts == Len(reqs) - 1

Successes ==
    Cardinality({k \in DOMAIN out :
                   out[k].t = "Transaction {i+1}/{count}: {tx_hash[:16]}..."})

FailedAttempts ==
    Cardinality({k \in DOMAIN out : out[k].t = "Failed to send transaction {i+1}"})

\* The gateway answered the send with a transaction hash
HasHash(resp) ==
    /\ resp.exc = "" /\ resp.code = 200 /\ resp.json
    /\ "hash" \in DOMAIN resp.body
    /\ resp.body["hash"] # ""

\* What holds while the loop runs, whatever number of attempts is planned
BatchProgress ==
    pc = "stt_loop" =>
        /\ Attempts = i
        /\ clock = 2 * i
        /\ sent = Successes
        /\ Successes + FailedAttempts = i
        /\ i >= 1 =>
             (LastPrinted("Transaction {i+1}/{count}: {tx_hash[:16]}...")
                <=> HasHash(response))
        /\ i < args.test_transactions[1] => ENABLED SendTestTransaction

\* What holds at the summary when `planned` attempts were to be made
BatchSummary(planned) ==
    pc = "exit" =>
        /\ BatchDone
        /\ Attempts = planned
        /\ clock = 2 * planned
        /\ out[Len(out)].n = Successes
        /\ Successes + FailedAttempts = planned
        /\ 0 <= out[Len(out)].n /\ out[Len(out)].n <= planned

\* C18 as stated: with at least 2 wallets a failed send never stops the
\* batch, all `count` attempts are made, 2 time units pass after each, and
\* the summary reports X = the number of attempts that returned a hash,
\* 0 <= X <= count.
C18_BatchNeverStops ==
    BatchRunning => (BatchProgress /\ BatchSummary(args.test_transactions[1]))

\* C18 amended: the same with max(count, 0) attempts: a negative count makes
\* no attempt and reports 0.
C18_BatchNeverStopsFromZero ==
    BatchRunning =>
        /\ BatchProgress
        /\ BatchSummary(IF args.test_transactions[1] < 0 THEN 0
                        ELSE args.test_transactions[1])

\* C18 witness: three attempts, the first and the last failed, the second
\* returned a hash; six time units were slept and the summary says 1
C18_OneOfThreeSent ==
    /\ BatchRunning
    /\ BatchDone
    /\ args.test_transactions = Some(3)
    /\ \E k \in DOMAIN out :
         out[k].t = "Failed to send transaction {i+1}" /\ out[k].n = 1
    /\ \E k \in DOMAIN out :
         out[k].t = "Transaction {i+1}/{count}: {tx_hash[:16]}..." /\ out[k].n = 2
    /\ ~HasHash(response)
    /\ Attempts = 3
    /\ clock = 6
    /\ out[Len(out)].n = 1

---------------------------------------------------------------------------
(* Termination of the session *)

\* C19: a session whose input stream is finite eventually reaches
\* Terminated: at the end of the input, without quit, exit or an interrupt,
\* the read loop stops.
C19_FiniteInputTerminates == <>(session = "Terminated")

---------------------------------------------------------------------------
(* Requests issued per interactive command *)

\* The loop is done with the line it read: back at input(), or out of the
\* loop through quit / exit
LineDone == ev = "line" /\ pc \in {"read", "exit"}

\* The line was turned down: a usage message, the invalid-amount message or
\* the unknown-command message was printed
Rejected ==
    \/ Printed("Usage: balance <address>")
    \/ Printed("Usage: send <from_address> <to_address> <amount>")
    \/ Printed("Invalid amount")
    \/ Printed("Unknown command: {command}. Type 'help' for available commands.")

\* The requests an accepted command with the words w is to issue
OwnRequests(w) ==
    CASE w[1] = "wallets" -> <<ListWalletsReq>>
      [] w[1] = "create-wallet" -> <<CreateWalletReq>>
      [] w[1] = "balance" -> <<BalanceReq(w[2])>>
      [] w[1] = "send" -> <<SendReq(w[2], w[3], float(w[4])[1], 1)>>
      [] w[1] = "transactions" -> <<RecentReq>>
      [] w[1] = "stats" -> <<StatsReq>>
      [] w[1] = "status" -> Append(RegistryProbes, StatsReq)

\* C20: help, the empty line, quit, exit and every line rejected as
\* malformed or unknown issue no HTTP request; every other command issues
\* the requests of its own operation and no other: one gateway request for
\* wallets, create-wallet, balance, send, transactions and stats, five
\* probes followed by one chain-statistics request for status.
C20_RequestsPerCommand ==
    LineDone =>
        LET w == Split(Lower(Strip(line)))
        IN  IF w = <<>> \/ w[1] \in {"help", "quit", "exit"} \/ Rejected
            THEN reqs = <<>>
            ELSE /\ w[1] \in {"wallets", "create-wallet", "balance", "send",
                              "transactions", "stats", "status"}
                 /\ reqs = OwnRequests(w)
                 /\ w[1] # "status" => Len(reqs) = 1

\* C20 witness: a `status` command has finished with its six requests
C20_StatusSixRequests ==
    /\ LineDone
    /\ session = "Running"
    /\ Lower(Strip(line)) = <<"status">>
    /\ Len(reqs) = 6
    /\ SubSeq(reqs, 1, 5) = RegistryProbes
    /\ reqs[6] = StatsReq

====
